---- MODULE Spec2Model ----
(***************************************************************************)
(* Model of fastapi_cloudauth/auth0.py: the Auth0 access-token verifier,   *)
(* the Auth0 ID-token verifier, their JWKS key source, issuer discovery    *)
(* and the nonce check (Auth0ExtraVerifier).                               *)
(*                                                                         *)
(* Python values are tagged tuples, so that values of different Python     *)
(* types are different values:  None is <<"None">>,  the str "a" is         *)
(* <<"str", "a">>,  the int 5 is <<"int", "5">>,  a list is <<"list", s>>   *)
(* and a dict is <<"dict", d>> with d a set of <<key, value>> pairs that   *)
(* holds at most one pair per key.                                         *)
(***************************************************************************)
EXTENDS Naturals, Sequences, FiniteSets

VARIABLES env, phase, args, verifier, exc, http, last, first

vars == <<env, phase, args, verifier, exc, http, last, first>>

\* Longest `keys` list of a JWKS document the environment serves.
MaxKeys == 2

HTTP_401_UNAUTHORIZED == 401

NOT_VERIFIED == "NOT_VERIFIED"

-----------------------------------------------------------------------------
(* Python values *)

PyNone == <<"None">>

PyStr(s) == <<"str", s>>

PyInt(t) == <<"int", t>>

PyList(s) == <<"list", s>>

PyDict(d) == <<"dict", d>>

PyTrue == <<"bool", "True">>

PyFalse == <<"bool", "False">>

\* d[k] is defined (k in d)
Has(d, k) == \E p \in d : p[1] = k

\* d[k], for k in d
Get(d, k) == (CHOOSE p \in d : p[1] = k)[2]

\* d after d[k] = v
DictSet(d, k, v) == {p \in d : p[1] # k} \cup {<<k, v>>}

\* str(v)
Str(v) ==
    CASE v[1] = "str"  -> v
      [] v[1] = "None" -> PyStr("None")
      [] v[1] = "int"  -> PyStr(v[2])
      [] v[1] = "bool" -> PyStr(v[2])
      [] OTHER         -> PyStr("<object>")

Return(v) == <<"return", v>>

Raise(e) == <<"raise", e>>

\* HTTPException(status_code=..., detail=...)
HTTPException(status_code, detail) == <<"raise", "HTTPException", status_code, detail>>

Raised(r) == r[1] = "raise"

-----------------------------------------------------------------------------
(* The environment: what the two well-known endpoints of the domain serve *)

Domain == "tenant.example"

JwksUrl(domain) == <<"https", domain, "/.well-known/jwks.json">>

DiscoveryUrl(domain) == <<"https", domain, "/.well-known/openid-configuration">>

\* requests.get(url).json() either raises or returns the decoded document
FetchFailed == <<"fail">>

Json(v) == <<"json", v>>

Jwk(kid, n) == {<<"kid", PyStr(kid)>>, <<"kty", PyStr("RSA")>>, <<"n", PyStr(n)>>}

JwkNoKid(n) == {<<"kty", PyStr("RSA")>>, <<"n", PyStr(n)>>}

\* two keys, a second key reusing the kid of the first, and an entry without kid
JwkEntries == {Jwk("k1", "n1"), Jwk("k2", "n2"), Jwk("k1", "n3"), JwkNoKid("n4")}

KeyLists == UNION {[1..n -> JwkEntries] : n \in 0..MaxKeys}

JwksResponses ==
    {FetchFailed}
    \cup {Json({<<"message", PyStr("Not Found")>>})}
    \cup {Json({<<"keys", PyNone>>})}
    \cup {Json({<<"keys", PyList(s)>>}) : s \in KeyLists}

DiscoveryResponses ==
    {FetchFailed,
     Json(PyList(<<>>)),
     Json(PyDict({<<"jwks_uri", PyStr("uri")>>})),
     Json(PyDict({<<"issuer", PyStr("https://tenant.example/")>>})),
     Json(PyDict({<<"issuer", PyNone>>})),
     Json(PyDict({<<"issuer", PyInt("5")>>}))}

-----------------------------------------------------------------------------
(* auth0.py *)

\* get_issuer without the str() around the field
get_issuer_raw(resp) ==
    IF resp = FetchFailed THEN Raise("RequestException")
    ELSE IF resp[2][1] # "dict" THEN Raise("AttributeError")
    ELSE LET openid_config == resp[2][2]
         IN  Return(IF Has(openid_config, "issuer")
                    THEN Get(openid_config, "issuer")
                    ELSE PyStr(""))

\* get_issuer: the discovery document's "issuer", through str(), "" by default.
\* A failed request raises; a document that is not an object has no .get.
get_issuer(resp) ==
    IF resp = FetchFailed THEN Raise("RequestException")
    ELSE IF resp[2][1] # "dict" THEN Raise("AttributeError")
    ELSE LET openid_config == resp[2][2]
         IN  Return(Str(IF Has(openid_config, "issuer")
                        THEN Get(openid_config, "issuer")
                        ELSE PyStr("")))

\* authlib's jwk.loads: the key object built from one JWKS entry
jwk_loads(_jwk) == <<"JsonWebKey", _jwk>>

\* The dict comprehension of JWKS._construct over the entries from position i on,
\* acc being the dict built so far: a later entry replaces an earlier one with
\* the same kid, and an entry without "kid" raises KeyError.
RECURSIVE Comprehension(_, _, _)
Comprehension(keys, i, acc) ==
    IF i > Len(keys) THEN Return(acc)
    ELSE IF ~Has(keys[i], "kid") THEN Raise("KeyError")
    ELSE Comprehension(keys, i + 1,
                       DictSet(acc, Get(keys[i], "kid"), jwk_loads(keys[i])))

\* _construct reading jwks["keys"] instead of jwks.get("keys", [])
JWKS_construct_subscript(jwks) ==
    IF ~Has(jwks, "keys") THEN Raise("KeyError")
    ELSE LET keys == Get(jwks, "keys")
         IN  IF keys[1] # "list" THEN Raise("TypeError")
             ELSE Comprehension(keys[2], 1, {})

\* JWKS._construct: jwks.get("keys", []) and the comprehension over it
JWKS_construct(jwks) ==
    LET keys == IF Has(jwks, "keys") THEN Get(jwks, "keys") ELSE PyList(<<>>)
    IN  IF keys[1] # "list" THEN Raise("TypeError")
        ELSE Comprehension(keys[2], 1, {})

\* JWKS(url=url): the base class fetches the document at construction and
\* builds the key set with _construct
JWKS_init(resp) ==
    IF resp = FetchFailed THEN Raise("RequestException")
    ELSE JWKS_construct(resp[2])

\* __init__ that does not keep the nonce it is given
Auth0ExtraVerifier_init_drops(nonce) == [_nonce |-> PyNone]

\* Auth0ExtraVerifier.__init__
Auth0ExtraVerifier_init(nonce) == [_nonce |-> nonce]

\* __call__ that returns False on a mismatch whatever auto_error
Auth0ExtraVerifier_call_never_raises(self, claims, auto_error) ==
    IF Has(claims, "nonce") /\ Get(claims, "nonce") # self._nonce
    THEN [out |-> Return(PyFalse), self |-> self]
    ELSE [out |-> Return(PyTrue), self |-> self]

\* __call__ without the except KeyError clause
Auth0ExtraVerifier_call_uncaught(self, claims, auto_error) ==
    IF ~Has(claims, "nonce") THEN [out |-> Raise("KeyError"), self |-> self]
    ELSE IF Get(claims, "nonce") # self._nonce
    THEN IF auto_error
         THEN [out |-> HTTPException(HTTP_401_UNAUTHORIZED, NOT_VERIFIED), self |-> self]
         ELSE [out |-> Return(PyFalse), self |-> self]
    ELSE [out |-> Return(PyTrue), self |-> self]

\* __call__ that keeps the nonce of the claims it has just compared
Auth0ExtraVerifier_call_keeps_nonce(self, claims, auto_error) ==
    IF Has(claims, "nonce") /\ Get(claims, "nonce") # self._nonce
    THEN IF auto_error
         THEN [out |-> HTTPException(HTTP_401_UNAUTHORIZED, NOT_VERIFIED),
               self |-> [self EXCEPT !._nonce = Get(claims, "nonce")]]
         ELSE [out |-> Return(PyFalse),
               self |-> [self EXCEPT !._nonce = Get(claims, "nonce")]]
    ELSE [out |-> Return(PyTrue), self |-> self]

\* Auth0ExtraVerifier.__call__: the outcome of the call and the object after it
Auth0ExtraVerifier_call(self, claims, auto_error) ==
    IF Has(claims, "nonce") /\ Get(claims, "nonce") # self._nonce
    THEN IF auto_error
         THEN [out |-> HTTPException(HTTP_401_UNAUTHORIZED, NOT_VERIFIED), self |-> self]
         ELSE [out |-> Return(PyFalse), self |-> self]
    ELSE [out |-> Return(PyTrue), self |-> self]

\* Auth0Claims with "" as the default of email
Auth0Claims_empty_default(claims) ==
    IF ~Has(claims, "name") THEN Raise("ValidationError")
    ELSE Return([username |-> Get(claims, "name"),
                 email    |-> IF Has(claims, "email") THEN Get(claims, "email")
                              ELSE PyStr("")])

\* Auth0Claims: username is the required field aliased "name", email the field
\* aliased "email" with default None
Auth0Claims(claims) ==
    IF ~Has(claims, "name") THEN Raise("ValidationError")
    ELSE Return([username |-> Get(claims, "name"),
                 email    |-> IF Has(claims, "email") THEN Get(claims, "email")
                              ELSE PyNone])

NoVerifier == <<"none">>

NoException == <<"none">>

\* the instance Auth0.__init__ hands to ScopedAuth.__init__
Auth0_obj(jwks, customAPI, issuer, scope_key, auto_error) ==
    <<"Auth0",
      [jwks       |-> jwks,
       audience   |-> customAPI,
       issuer     |-> issuer,
       scope_key  |-> scope_key,
       auto_error |-> auto_error,
       user_info  |-> "None",
       extra      |-> Auth0ExtraVerifier_init(PyNone)]>>

\* Auth0.__init__ calling get_issuer whether or not an issuer was given
Auth0_init_always_discovers(domain, customAPI, issuer, scope_key, auto_error, jwksResp, discResp) ==
    LET jwks == JWKS_init(jwksResp)
        disc == get_issuer(discResp)
    IN  IF Raised(jwks)
        THEN [http |-> <<JwksUrl(domain)>>, exc |-> jwks, obj |-> NoVerifier]
        ELSE IF Raised(disc)
        THEN [http |-> <<JwksUrl(domain), DiscoveryUrl(domain)>>,
              exc |-> disc, obj |-> NoVerifier]
        ELSE [http |-> <<JwksUrl(domain), DiscoveryUrl(domain)>>,
              exc  |-> NoException,
              obj  |-> Auth0_obj(jwks[2], customAPI,
                                 IF issuer = PyNone THEN disc[2] ELSE issuer,
                                 scope_key, auto_error)]

\* Auth0.__init__ resolving the issuer before it builds the JWKS
Auth0_init_discovers_first(domain, customAPI, issuer, scope_key, auto_error, jwksResp, discResp) ==
    LET jwks == JWKS_init(jwksResp)
        disc == get_issuer(discResp)
    IN  IF issuer = PyNone /\ Raised(disc)
        THEN [http |-> <<DiscoveryUrl(domain)>>, exc |-> disc, obj |-> NoVerifier]
        ELSE IF Raised(jwks)
        THEN [http |-> IF issuer = PyNone
                       THEN <<DiscoveryUrl(domain), JwksUrl(domain)>>
                       ELSE <<JwksUrl(domain)>>,
              exc |-> jwks, obj |-> NoVerifier]
        ELSE [http |-> IF issuer = PyNone
                       THEN <<DiscoveryUrl(domain), JwksUrl(domain)>>
                       ELSE <<JwksUrl(domain)>>,
              exc  |-> NoException,
              obj  |-> Auth0_obj(jwks[2], customAPI,
                                 IF issuer = PyNone THEN disc[2] ELSE issuer,
                                 scope_key, auto_error)]

\* Auth0.__init__: the requests made, the exception raised (if any) and the
\* instance handed to ScopedAuth.__init__
Auth0_init(domain, customAPI, issuer, scope_key, auto_error, jwksResp, discResp) ==
    LET jwks == JWKS_init(jwksResp)
        disc == get_issuer(discResp)
    IN  IF Raised(jwks)
        THEN [http |-> <<JwksUrl(domain)>>, exc |-> jwks, obj |-> NoVerifier]
        ELSE IF issuer = PyNone /\ Raised(disc)
        THEN [http |-> <<JwksUrl(domain), DiscoveryUrl(domain)>>,
              exc |-> disc, obj |-> NoVerifier]
        ELSE [http |-> IF issuer = PyNone
                       THEN <<JwksUrl(domain), DiscoveryUrl(domain)>>
                       ELSE <<JwksUrl(domain)>>,
              exc  |-> NoException,
              obj  |-> Auth0_obj(jwks[2], customAPI,
                                 IF issuer = PyNone THEN disc[2] ELSE issuer,
                                 scope_key, auto_error)]

\* Auth0CurrentUser.__init__: as above, handing the instance to
\* UserInfoAuth.__init__ with user_info = Auth0Claims and the nonce check
Auth0CurrentUser_init(domain, client_id, nonce, issuer, jwksResp, discResp) ==
    LET jwks == JWKS_init(jwksResp)
        disc == get_issuer(discResp)
    IN  IF Raised(jwks)
        THEN [http |-> <<JwksUrl(domain)>>, exc |-> jwks, obj |-> NoVerifier]
        ELSE IF issuer = PyNone /\ Raised(disc)
        THEN [http |-> <<JwksUrl(domain), DiscoveryUrl(domain)>>,
              exc |-> disc, obj |-> NoVerifier]
        ELSE [http |-> IF issuer = PyNone
                       THEN <<JwksUrl(domain), DiscoveryUrl(domain)>>
                       ELSE <<JwksUrl(domain)>>,
              exc  |-> NoException,
              obj  |-> <<"Auth0CurrentUser",
                         [jwks       |-> jwks[2],
                          audience   |-> client_id,
                          issuer     |-> IF issuer = PyNone THEN disc[2] ELSE issuer,
                          user_info  |-> "Auth0Claims",
                          extra      |-> Auth0ExtraVerifier_init(nonce)]>>]

-----------------------------------------------------------------------------
(* The state machine: one verifier instance, from construction on *)

\* Verification calls made on one instance.
MaxCalls == 3

Unset == <<"none">>

IssuerArgs == {PyNone, PyStr("https://explicit.example/")}

NonceArgs == {PyNone, PyStr("abc")}

Sub == {<<"sub", PyStr("auth0|1")>>}

\* claim sets handed to the extra check: without nonce, with a string, with null
ExtraClaimSets ==
    {Sub \cup n : n \in {{}, {<<"nonce", PyStr("abc")>>},
                         {<<"nonce", PyStr("xyz")>>}, {<<"nonce", PyNone>>}}}

\* claim sets handed to the projection: name and email present or not
UserClaimSets ==
    {Sub \cup n \cup e : n \in {{}, {<<"name", PyStr("Bob")>>}},
                         e \in {{}, {<<"email", PyStr("bob@example.com")>>}}}

Init ==
    /\ env \in [jwks : JwksResponses, disc : DiscoveryResponses]
    /\ phase = "new"
    /\ args = Unset
    /\ verifier = NoVerifier
    /\ exc = NoException
    /\ http = <<>>
    /\ last = Unset
    /\ first = Unset

\* the instance, the exception and the requests a constructor run r leaves
Constructed(r) ==
    /\ http' = http \o r.http
    /\ exc' = r.exc
    /\ verifier' = r.obj
    /\ phase' = IF r.obj = NoVerifier THEN "failed" ELSE "ready"
    /\ UNCHANGED <<env, last, first>>

\* Auth0(domain, customAPI, issuer, auto_error=...)
ConstructAuth0 ==
    /\ phase = "new"
    /\ \E issuer \in IssuerArgs, auto_error \in BOOLEAN :
          /\ args' = <<"Auth0", [issuer |-> issuer, auto_error |-> auto_error]>>
          /\ Constructed(Auth0_init(Domain, PyStr("api"), issuer, PyStr("permissions"),
                                    auto_error, env.jwks, env.disc))

\* Auth0CurrentUser(domain, client_id, nonce, issuer)
ConstructAuth0CurrentUser ==
    /\ phase = "new"
    /\ \E issuer \in IssuerArgs, nonce \in NonceArgs :
          /\ args' = <<"Auth0CurrentUser", [issuer |-> issuer, nonce |-> nonce]>>
          /\ Constructed(Auth0CurrentUser_init(Domain, PyStr("client"), nonce, issuer,
                                               env.jwks, env.disc))

\* calls made so far on the instance
Calls == IF last = Unset THEN 0 ELSE last[2]

\* the verifier runs its extra check on the claims of a token
ExtraVerify ==
    /\ phase = "ready"
    /\ Calls < MaxCalls
    /\ \E claims \in ExtraClaimSets, auto_error \in BOOLEAN :
          LET r == Auth0ExtraVerifier_call(verifier[2].extra, claims, auto_error)
          IN  /\ last' = <<"extra", Calls + 1, claims, auto_error, r.out>>
              /\ first' = IF first = Unset THEN last' ELSE first
              /\ verifier' = <<verifier[1], [verifier[2] EXCEPT !.extra = r.self]>>
    /\ UNCHANGED <<env, phase, args, exc, http>>

\* the ID-token verifier projects the claims of a token with its user_info model
GetUser ==
    /\ phase = "ready"
    /\ Calls < MaxCalls
    /\ verifier[2].user_info = "Auth0Claims"
    /\ \E claims \in UserClaimSets :
          last' = <<"user", Calls + 1, claims, Auth0Claims(claims)>>
    /\ UNCHANGED <<env, phase, args, verifier, exc, http, first>>

Next ==
    \/ ConstructAuth0
    \/ ConstructAuth0CurrentUser
    \/ ExtraVerify
    \/ GetUser

Spec == Init /\ [][Next]_vars

-----------------------------------------------------------------------------
(* Properties *)

\* the nonce the instance's extra check holds
HeldNonce == verifier[2].extra._nonce

\* C1: an extra check holding nonce n, called with a claim set whose nonce claim
\* is present and different from n, signals HTTP 401 NOT_VERIFIED when auto_error
\* is true and returns False without raising when auto_error is false.
C1_MismatchedNonceRejected ==
    (last[1] = "extra" /\ Has(last[3], "nonce") /\ Get(last[3], "nonce") # HeldNonce)
    => IF last[4]
       THEN last[5] = <<"raise", "HTTPException", 401, "NOT_VERIFIED">>
       ELSE last[5] = <<"return", PyFalse>>

C1_Witness ==
    /\ last[1] = "extra"
    /\ HeldNonce = PyStr("abc")
    /\ Has(last[3], "nonce") /\ Get(last[3], "nonce") = PyStr("xyz")
    /\ ~last[4]
    /\ last[5] = <<"return", PyFalse>>

\* C2: an extra check holding any nonce (None included), called with a claim set
\* that has no nonce claim, returns True and raises nothing, whatever auto_error.
C2_AbsentNoncePasses ==
    (last[1] = "extra" /\ ~Has(last[3], "nonce")) => last[5] = <<"return", PyTrue>>

C2_Witness ==
    /\ last[1] = "extra"
    /\ HeldNonce = PyStr("abc")
    /\ ~Has(last[3], "nonce")
    /\ last[4]
    /\ last[5] = <<"return", PyTrue>>

\* C3: for an ID-token verifier constructed with nonce n, a claim set whose
\* nonce claim equals n passes the extra check (True, no error), whatever
\* auto_error.
C3_MatchingNoncePasses ==
    (/\ args[1] = "Auth0CurrentUser"
     /\ last[1] = "extra"
     /\ Has(last[3], "nonce")
     /\ Get(last[3], "nonce") = args[2].nonce)
    => last[5] = <<"return", PyTrue>>

C3_Witness ==
    /\ args[1] = "Auth0CurrentUser"
    /\ args[2].nonce = PyStr("abc")
    /\ last[1] = "extra"
    /\ Has(last[3], "nonce") /\ Get(last[3], "nonce") = PyStr("abc")
    /\ last[5] = <<"return", PyTrue>>

\* the discovery document served, when it is an object
DiscoveryDoc == env.disc[2][2]

\* C4 as stated: the configured issuer is the explicit issuer when one was
\* supplied, otherwise the issuer field of the discovery document, otherwise "".
C4_IssuerIsDiscoveryField ==
    phase = "ready" =>
        verifier[2].issuer =
            IF args[2].issuer # PyNone THEN args[2].issuer
            ELSE IF Has(DiscoveryDoc, "issuer") THEN Get(DiscoveryDoc, "issuer")
            ELSE PyStr("")

\* C4 amended: the configured issuer is the explicit issuer when one was
\* supplied, otherwise the issuer field of the discovery document rendered as a
\* string (the field itself when it is a string, "None" when it is null, the
\* digits of a number), otherwise "".
C4_IssuerIsDiscoveryFieldAsString ==
    phase = "ready" =>
        verifier[2].issuer =
            IF args[2].issuer # PyNone THEN args[2].issuer
            ELSE IF Has(DiscoveryDoc, "issuer")
            THEN LET f == Get(DiscoveryDoc, "issuer")
                 IN  CASE f[1] = "str"  -> f
                       [] f[1] = "None" -> <<"str", "None">>
                       [] f[1] = "int"  -> <<"str", f[2]>>
            ELSE PyStr("")

C4_Witness ==
    /\ phase = "ready"
    /\ args[2].issuer = PyNone
    /\ Has(DiscoveryDoc, "issuer")
    /\ verifier[2].issuer = PyStr("https://tenant.example/")

\* number of requests for url in the log
Requests(url) == Cardinality({i \in 1..Len(http) : http[i] = url})

\* C5: over the life of an instance the JWKS is fetched at most once and the
\* discovery document at most once, the discovery document only when no explicit
\* issuer was supplied, and no verification call makes a request or changes the
\* issuer.
C5_FetchedOnceAtConstruction ==
    /\ [](/\ Requests(JwksUrl(Domain)) <= 1
          /\ Requests(DiscoveryUrl(Domain)) <= 1
          /\ Requests(DiscoveryUrl(Domain)) = 1 => args[2].issuer = PyNone)
    /\ [][phase = "ready" => /\ http' = http
                             /\ verifier'[2].issuer = verifier[2].issuer
                             /\ verifier'[2].jwks = verifier[2].jwks]_vars

C5_Witness ==
    /\ phase = "ready"
    /\ last # Unset /\ last[2] = 2
    /\ http = <<JwksUrl(Domain), DiscoveryUrl(Domain)>>

\* C6: the extra check installed by the access-token verifier passes for every
\* claim set, with or without a nonce claim.
C6_AccessTokenIgnoresNonce ==
    (args[1] = "Auth0" /\ last[1] = "extra") => last[5] = <<"return", PyTrue>>

\* the JWKS document served, when the request succeeded
JwksDoc == env.jwks[2]

\* the entries of its keys list
JwksEntries == Get(JwksDoc, "keys")[2]

\* the document has no keys list or an entry of the list has no kid
Malformed ==
    \/ ~Has(JwksDoc, "keys")
    \/ Get(JwksDoc, "keys")[1] # "list"
    \/ \E i \in 1..Len(JwksEntries) : ~Has(JwksEntries[i], "kid")

\* the construction failed while building the key set
KeySetFailed ==
    /\ phase = "failed"
    /\ exc[1] = "raise"
    /\ http = <<JwksUrl(Domain)>>
    /\ verifier = NoVerifier

C8_EmailDefaultsToEmptyString ==
    (last[1] = "user" /\ last[4][1] = "return") =>
        /\ last[4][2].username = Get(last[3], "name")
        /\ last[4][2].email = IF Has(last[3], "email") THEN Get(last[3], "email")
                              ELSE <<"str", "">>

\* C8 amended: username is the value of the name claim, email the value of the
\* email claim, or None when there is no email claim.
C8_EmailDefaultsToNone ==
    (last[1] = "user" /\ last[4][1] = "return") =>
        /\ last[4][2].username = Get(last[3], "name")
        /\ last[4][2].email = IF Has(last[3], "email") THEN Get(last[3], "email")
                              ELSE <<"None">>

C8_Witness ==
    /\ last[1] = "user"
    /\ last[4][1] = "return"
    /\ ~Has(last[3], "email")
    /\ last[4][2] = [username |-> PyStr("Bob"), email |-> PyNone]

\* C9: no call of the extra check changes the nonce held or any other
\* configuration of the verifier, and a call repeating the claims and auto_error
\* of the first call has the outcome of the first call.
C9_CallsAreStateless ==
    /\ []((last[1] = "extra" /\ first[3] = last[3] /\ first[4] = last[4])
          => first[5] = last[5])
    /\ [][phase = "ready" => verifier' = verifier]_vars

C9_Witness ==
    /\ last[1] = "extra"
    /\ last[2] = 3
    /\ first[3] = last[3] /\ first[4] = last[4]
    /\ last[5] = <<"return", PyFalse>>

\* C10: the JWKS is requested before the discovery document; when the JWKS
\* request fails no discovery request is made; when either request fails no
\* verifier exists; and verification calls run only on a verifier whose key set
\* and issuer are in place.
C10_ReadyBeforeFirstCall ==
    /\ http \in {<<>>, <<JwksUrl(Domain)>>, <<JwksUrl(Domain), DiscoveryUrl(Domain)>>}
    /\ (phase # "new" /\ env.jwks = FetchFailed)
          => http = <<JwksUrl(Domain)>> /\ verifier = NoVerifier /\ exc[1] = "raise"
    /\ (phase # "new" /\ args[2].issuer = PyNone /\ env.disc = FetchFailed)
          => verifier = NoVerifier /\ exc[1] = "raise"
    /\ phase = "failed" => verifier = NoVerifier /\ last = Unset
    /\ phase = "new" => verifier = NoVerifier /\ last = Unset /\ http = <<>>
    /\ phase = "ready" =>
          /\ exc = NoException
          /\ http # <<>> /\ env.jwks # FetchFailed
          /\ args[2].issuer = PyNone => (Len(http) = 2 /\ env.disc # FetchFailed)
          /\ verifier[2].issuer[1] = "str"
          /\ \A p \in verifier[2].jwks : p[2][1] = "JsonWebKey"

C10_Witness ==
    /\ phase = "failed"
    /\ env.jwks = FetchFailed
    /\ args[2].issuer = PyNone
    /\ http = <<JwksUrl(Domain)>>

====
